---------------------------- MODULE Spec2Model ----------------------------
(***************************************************************************)
(* The Service Description Table codec of TSDuck (src/libtsduck/tsSDT.cpp): *)
(* ts::SDT::serialize, ts::SDT::addSection and ts::SDT::deserialize, as a   *)
(* state machine whose steps are the statements of the two methods; then    *)
(* ts::SDT::findService and the name accessors of ts::SDT::Service.         *)
(*                                                                         *)
(* Bytes are integers 0..255.  A descriptor is the sequence of its bytes    *)
(* (tag, length, payload).  The working buffer of serialize is an array of  *)
(* MAX_PSI_LONG_SECTION_PAYLOAD_SIZE cells; a cell never written holds      *)
(* Uninit.  Offsets into a buffer count the bytes before the cursor, so     *)
(* data = 3 is the C++ pointer payload + 3.                                 *)
(***************************************************************************)
EXTENDS Integers, Sequences, FiniteSets, TLC

(***************************************************************************)
(* Bounds of the model.  The section payload size and the descriptor        *)
(* payload size are the protocol's 1012 and 255 scaled down; the scaled     *)
(* values keep what the protocol's values give the code: a section holds    *)
(* the 3 constant bytes and a 5-byte service header (size >= 8), and any    *)
(* one descriptor fits in a section that holds only those 8 bytes           *)
(* (MaxDescPayload + 2 <= size - 8, as 257 <= 1004).                        *)
(***************************************************************************)
MAX_PSI_LONG_SECTION_PAYLOAD_SIZE == 16

MaxDescPayload == 4

MaxDescs == 2

MaxServices == 2

MaxEmptyServices == 7

MaxInSections == 2

(***************************************************************************)
(* Program constants.                                                      *)
(***************************************************************************)
TID_SDT_ACT == 66

TID_SDT_OTH == 70

DID_SERVICE == 72

Uninit == 0 - 1

Byte == 0..255

(***************************************************************************)
(* The C++ operators & and | on non-negative integers.                      *)
(***************************************************************************)
RECURSIVE BitAnd(_, _)
BitAnd(a, b) ==
    IF a = 0 \/ b = 0 THEN 0
    ELSE (a % 2) * (b % 2) + 2 * BitAnd(a \div 2, b \div 2)

RECURSIVE BitOr(_, _)
BitOr(a, b) ==
    IF a = 0 THEN b
    ELSE IF b = 0 THEN a
    ELSE (IF a % 2 = 1 \/ b % 2 = 1 THEN 1 ELSE 0) + 2 * BitOr(a \div 2, b \div 2)

\* Conversion of an int to uint8_t.
U8(x) == x % 256

\* Big-endian 16-bit accessors (tsduck's PutUInt16 / GetUInt16).
PutUInt16(v) == << (v \div 256) % 256, v % 256 >>

\* The 16-bit value at offset off (0-based) of the byte sequence b.
GetUInt16(b, off) == b[off + 1] * 256 + b[off + 2]

Min(a, b) == IF a < b THEN a ELSE b

RECURSIVE Flatten(_)
Flatten(ss) == IF ss = << >> THEN << >> ELSE Head(ss) \o Flatten(Tail(ss))

\* buf with bytes written at offset off (0-based); a write past the end of
\* the array is cut at the end (the cursor still moves, see the callers).
WriteAt(buf, off, bytes) ==
    [i \in 1..Len(buf) |->
        IF i > off /\ i <= off + Len(bytes) THEN bytes[i - off] ELSE buf[i]]

\* The n bytes at offset off (0-based) of a buffer; a read past its end
\* gives Uninit.
ReadBytes(buf, off, n) ==
    [i \in 1..n |-> IF off + i <= Len(buf) THEN buf[off + i] ELSE Uninit]

(***************************************************************************)
(* DescriptorList (the list a Service owns).                                *)
(***************************************************************************)
count(descs) == Len(descs)

RECURSIVE binarySize(_)
binarySize(descs) ==
    IF descs = << >> THEN 0 ELSE Len(Head(descs)) + binarySize(Tail(descs))

\* DescriptorList::serialize: the index of the first descriptor that does not
\* fit in size bytes, starting at descriptor start (0-based).
RECURSIVE serializeNext(_, _, _)
serializeNext(descs, size, start) ==
    IF start < Len(descs) /\ Len(descs[start + 1]) <= size
    THEN serializeNext(descs, size - Len(descs[start + 1]), start + 1)
    ELSE start

\* The 2-byte length field lengthSerialize writes: the length in the low 12
\* bits, the 4 reserved bits set.
LengthField(length) == PutUInt16(BitOr(length, 61440))

\* DescriptorList::lengthSerialize(addr, size, start): the 2-byte length
\* field, then as many whole descriptors as fit in the size - 2 bytes left.
\* Returns the bytes written and the index of the first descriptor not written.
lengthSerialize(descs, size, start) ==
    LET next  == serializeNext(descs, size - 2, start)
        bytes == Flatten(SubSeq(descs, start + 1, next))
    IN  [bytes |-> LengthField(Len(bytes)) \o bytes,
         next  |-> next]

\* DescriptorList::add(data, size): parse tag/length/payload triples; a
\* descriptor whose declared length exceeds the bytes left is clamped to them.
RECURSIVE addBytes(_, _)
addBytes(descs, bytes) ==
    IF Len(bytes) < 2 THEN descs
    ELSE LET n == Min(bytes[2], Len(bytes) - 2)
         IN  addBytes(Append(descs, SubSeq(bytes, 1, 2 + n)),
                      SubSeq(bytes, 3 + n, Len(bytes)))

(***************************************************************************)
(* SDT::Service.                                                           *)
(***************************************************************************)
\* Service::Service()
NewService ==
    [EITs_present |-> FALSE, EITpf_present |-> FALSE, running_status |-> 0,
     CA_controlled |-> FALSE, descs |-> << >>]

\* FlagsByte with the two EIT bits exchanged.
FlagsByte_swapped(serv) ==
    BitOr(BitOr(252, IF serv.EITs_present THEN 1 ELSE 0),
          IF serv.EITpf_present THEN 2 ELSE 0)

\* The flags byte of a service header (byte 2).
FlagsByte(serv) ==
    BitOr(BitOr(252, IF serv.EITs_present THEN 2 ELSE 0),
          IF serv.EITpf_present THEN 1 ELSE 0)

\* StatusByte that keeps the 4 reserved bits lengthSerialize wrote.
StatusByte_noMask(b, serv) ==
    U8(BitOr(BitOr(b, serv.running_status * 32),
             IF serv.CA_controlled THEN 16 ELSE 0))

\* The patch of the first byte of the length field (byte 3), stored in a uint8_t.
StatusByte(b, serv) ==
    U8(BitOr(BitOr(BitAnd(b, 15), serv.running_status * 32),
             IF serv.CA_controlled THEN 16 ELSE 0))

\* The four flags and the 12-bit length read from a 5-byte header h.
HeaderEITs(h) == BitAnd(h[3], 2) # 0

HeaderEITpf(h) == BitAnd(h[3], 1) # 0

HeaderRunning(h) == h[4] \div 32

HeaderCA(h) == BitAnd(h[4], 16) # 0

HeaderInfoLength(h) == BitAnd(GetUInt16(h, 3), 4095)

VARIABLES
    sdt,      \* the SDT object serialize is called on (const in serialize)
    table,    \* the BinaryTable: serialize's output, deserialize's input
    obj,      \* the SDT object deserialize is called on
    pc,       \* the statement the program is at
    caller,   \* what the caller does: "roundtrip", "decode" or "bits"
    ser,      \* the locals of serialize
    des,      \* the locals of deserialize
    probe     \* a service header packed and read back on its own

vars == << sdt, table, obj, pc, caller, ser, des, probe >>

(***************************************************************************)
(* BinaryTable and Section.                                                *)
(***************************************************************************)
\* BinaryTable::clear()
EmptyTable == [valid |-> FALSE, sections |-> << >>]

\* BinaryTable::addSection(section): the section is appended; a table that
\* holds sections, all of them well-formed, is valid.
BinaryTableAddSection(t, sect) ==
    [valid |-> TRUE, sections |-> Append(t.sections, sect)]

\* BinaryTable::tableId(): the table id of the first section.
tableId(t) == t.sections[1].table_id

sectionCount(t) == Len(t.sections)

(***************************************************************************)
(* The service map: a function from service ids to services, iterated in    *)
(* ascending order of the ids.                                             *)
(***************************************************************************)
End == 65535 + 1

\* The key that follows k in map order (End after the last one).
NextKey(services, k) ==
    LET after == {j \in DOMAIN services : j > k}
    IN  IF after = {} THEN End
        ELSE CHOOSE j \in after : \A i \in after : j <= i

\* FirstKey that starts at the last key of the map.
FirstKey_last(services) ==
    IF DOMAIN services = {} THEN End
    ELSE CHOOSE j \in DOMAIN services : \A i \in DOMAIN services : i <= j

\* services.begin()
FirstKey(services) == NextKey(services, 0 - 1)

(***************************************************************************)
(* SDT::addSection.                                                        *)
(***************************************************************************)
\* NewSection that takes the whole working buffer as the payload.
NewSection_wholeBuffer(t, s) ==
    [table_id            |-> t._table_id,
     is_private_section  |-> TRUE,
     tid_ext             |-> t.ts_id,
     version             |-> t.version,
     is_current          |-> t.is_current,
     section_number      |-> U8(s.section_number),
     last_section_number |-> U8(s.section_number),
     payload             |-> ReadBytes(s.payload, 0, MAX_PSI_LONG_SECTION_PAYLOAD_SIZE)]

\* The Section built from the table's fields and the bytes before the cursor.
NewSection(t, s) ==
    [table_id            |-> t._table_id,
     is_private_section  |-> TRUE,
     tid_ext             |-> t.ts_id,
     version             |-> t.version,
     is_current          |-> t.is_current,
     section_number      |-> U8(s.section_number),
     last_section_number |-> U8(s.section_number),
     payload             |-> ReadBytes(s.payload, 0, s.data)]

\* Reinitialize that starts again from an empty buffer.
Reinitialize_clearBuffer(s) ==
    [s EXCEPT !.payload = [i \in 1..Len(s.payload) |-> Uninit],
              !.remain = s.remain + s.data - 3,
              !.data = 3,
              !.section_number = s.section_number + 1]

\* Reinitialize that does not give back the bytes of the section added.
Reinitialize_keepRemain(s) ==
    [s EXCEPT !.data = 3,
              !.section_number = s.section_number + 1]

\* Reinitialize that leaves the cursor where it is.
Reinitialize_noRewind(s) ==
    [s EXCEPT !.remain = s.remain + s.data - 3,
              !.section_number = s.section_number + 1]

\* The locals after a section was added: the cursor is back after the 3
\* constant bytes, which stay in the buffer.
Reinitialize(s) ==
    [s EXCEPT !.remain = s.remain + s.data - 3,
              !.data = 3,
              !.section_number = s.section_number + 1]

\* addSection(table, section_number, payload, data, remain)
addSection(bt, t, s) ==
    [table |-> BinaryTableAddSection(bt, NewSection(t, s)),
     ser   |-> Reinitialize(s)]

\* No section added: the same shape as addSection's result.
Keep(bt, s) == [table |-> bt, ser |-> s]

(***************************************************************************)
(* SDT::serialize, statement by statement.                                  *)
(***************************************************************************)
\* if (remain < 5): the fixed part of a service does not fit.
FixedPartDoesNotFit(remain) == remain < 5

\* ServiceDoesNotFit that looks at the fixed part only.
ServiceDoesNotFit_headerOnly(serv, remain) == 5 > remain

\* 5 + serv.descs.binarySize() > remain: the whole service does not fit.
ServiceDoesNotFit(serv, remain) == 5 + binarySize(serv.descs) > remain

\* SectionIsFull that never finds the section full.
SectionIsFull_never(serv, start_index) == FALSE

\* SectionIsFull with <= for <.
SectionIsFull_offByOne(serv, start_index) == start_index <= count(serv.descs)

\* start_index < serv.descs.count(): not all descriptors were written.
SectionIsFull(serv, start_index) == start_index < count(serv.descs)

\* PartialSection without the case of a table that has no section yet.
PartialSection_dataOnly(bt, s) == s.data > 3

\* data > payload + 3 || table.sectionCount() == 0: there is a partial section.
PartialSection(bt, s) == s.data > 3 \/ sectionCount(bt) = 0

NoLocals == [payload |-> << >>, data |-> 0, remain |-> 0, section_number |-> 0,
             it |-> End, starting |-> FALSE, start_index |-> 0]

\* The locals once the constant part of the payload is written.
SerializeLocals(t) ==
    [payload        |-> WriteAt([i \in 1..MAX_PSI_LONG_SECTION_PAYLOAD_SIZE |-> Uninit],
                                0, PutUInt16(t.onetw_id) \o << 255 >>),
     data           |-> 3,
     remain         |-> MAX_PSI_LONG_SECTION_PAYLOAD_SIZE - 3,
     section_number |-> 0,
     it             |-> FirstKey(t.services),
     starting       |-> FALSE,
     start_index    |-> 0]

\* NothingToSerialize that takes any table.
NothingToSerialize_never(t) == FALSE

\* if (!_is_valid) return: "Return an empty table if not valid".
NothingToSerialize(t) == ~t._is_valid

\* table.clear(); return if not valid; set up the buffer.
SerBegin ==
    /\ pc = "serialize"
    /\ table' = EmptyTable
    /\ IF NothingToSerialize(sdt)
       THEN /\ pc' = "ser_done"
            /\ ser' = ser
       ELSE /\ pc' = "ser_for"
            /\ ser' = SerializeLocals(sdt)
    /\ UNCHANGED << sdt, obj, caller, des, probe >>

\* The head of the for loop body: a new section when the fixed part of the
\* service does not fit.
SerService ==
    /\ pc = "ser_for"
    /\ ser.it # End
    /\ LET r == IF FixedPartDoesNotFit(ser.remain) THEN addSection(table, sdt, ser) ELSE Keep(table, ser)
       IN  /\ table' = r.table
           /\ ser' = [r.ser EXCEPT !.starting = TRUE, !.start_index = 0]
    /\ pc' = "ser_while"
    /\ UNCHANGED << sdt, obj, caller, des, probe >>

\* The head of the while loop, condition true: a new section when the whole
\* service does not fit in what remains.
SerFit ==
    /\ pc = "ser_while"
    /\ LET serv == sdt.services[ser.it]
       IN  /\ ser.starting \/ ser.start_index < count(serv.descs)
           /\ LET r == IF ser.starting /\ ServiceDoesNotFit(serv, ser.remain)
                       THEN addSection(table, sdt, ser) ELSE Keep(table, ser)
              IN  /\ table' = r.table
                  /\ ser' = [r.ser EXCEPT !.starting = FALSE]
    /\ pc' = "ser_header"
    /\ UNCHANGED << sdt, obj, caller, des, probe >>

\* The while loop's condition false: ++it.
SerAdvance ==
    /\ pc = "ser_while"
    /\ ~(ser.starting \/ ser.start_index < count(sdt.services[ser.it].descs))
    /\ ser' = [ser EXCEPT !.it = NextKey(sdt.services, ser.it)]
    /\ pc' = "ser_for"
    /\ UNCHANGED << sdt, table, obj, caller, des, probe >>

\* assert (remain >= 5); the service id and the flags byte.
SerHeader ==
    /\ pc = "ser_header"
    /\ IF ser.remain < 5
       THEN /\ pc' = "assert_failed"
            /\ ser' = ser
       ELSE /\ pc' = "ser_descs"
            /\ ser' = [ser EXCEPT
                  !.payload = WriteAt(ser.payload, ser.data,
                                  PutUInt16(ser.it) \o << FlagsByte(sdt.services[ser.it]) >>),
                  !.data = ser.data + 3,
                  !.remain = ser.remain - 3]
    /\ UNCHANGED << sdt, table, obj, caller, des, probe >>

\* lengthSerialize, then the running status and CA bit in the 4 reserved bits.
\* w is what lengthSerialize writes at flags = data, buf the buffer after it,
\* b the byte flags[0] holds then.
SerDescs ==
    /\ pc = "ser_descs"
    /\ \E w \in {lengthSerialize(sdt.services[ser.it].descs, ser.remain, ser.start_index)} :
       \E buf \in {WriteAt(ser.payload, ser.data, w.bytes)} :
       \E b \in {ReadBytes(buf, ser.data, 1)[1]} :
       \E patched \in {StatusByte(b, sdt.services[ser.it])} :
          ser' = [ser EXCEPT
                    !.payload = WriteAt(buf, ser.data, << patched >>),
                    !.data = ser.data + Len(w.bytes),
                    !.remain = ser.remain - Len(w.bytes),
                    !.start_index = w.next]
    /\ pc' = "ser_split"
    /\ UNCHANGED << sdt, table, obj, caller, des, probe >>

\* Not all descriptors written: the section is full, open a new one.
SerSplit ==
    /\ pc = "ser_split"
    /\ LET r == IF SectionIsFull(sdt.services[ser.it], ser.start_index)
                THEN addSection(table, sdt, ser) ELSE Keep(table, ser)
       IN  /\ table' = r.table
           /\ ser' = r.ser
    /\ pc' = "ser_while"
    /\ UNCHANGED << sdt, obj, caller, des, probe >>

\* After the loop: the partial section, if there is one.
SerFinish ==
    /\ pc = "ser_for"
    /\ ser.it = End
    /\ LET r == IF PartialSection(table, ser)
                THEN addSection(table, sdt, ser) ELSE Keep(table, ser)
       IN  /\ table' = r.table
           /\ ser' = r.ser
    /\ pc' = "ser_done"
    /\ UNCHANGED << sdt, obj, caller, des, probe >>

(***************************************************************************)
(* SDT::deserialize, statement by statement.                                *)
(***************************************************************************)
NoDesLocals == [si |-> 0, data |-> 0, remain |-> 0, added |-> << >>]

\* "Clear table content": the validity flag, the two ids and the service map.
ClearContent(o) ==
    [o EXCEPT !._is_valid = FALSE, !.ts_id = 0, !.onetw_id = 0, !.services = << >>]

\* IsSDTTableId that accepts every table id.
IsSDTTableId_any(tid) == TRUE

\* Whether a table id is one deserialize accepts.
IsSDTTableId(tid) == tid = TID_SDT_ACT \/ tid = TID_SDT_OTH

\* ExpectedTable that accepts a section of either SDT table id.
ExpectedTable_anySDT(o, sect) ==
    sect.table_id = TID_SDT_ACT \/ sect.table_id = TID_SDT_OTH

\* sect.tableId() != _table_id aborts: whether the section is of the table.
ExpectedTable(o, sect) == sect.table_id = o._table_id

\* remain < 3 aborts: whether the payload holds the 3 constant bytes.
HasConstantPart(size) == size >= 3

\* Clear the content; return if the binary table is not valid or is no SDT.
DesBegin ==
    /\ pc = "deserialize" \/ pc = "ser_done"
    /\ des' = NoDesLocals
    /\ IF ~table.valid
       THEN /\ obj' = ClearContent(obj)
            /\ pc' = "des_done"
       ELSE /\ obj' = [ClearContent(obj) EXCEPT !._table_id = tableId(table)]
            /\ pc' = IF IsSDTTableId(tableId(table)) THEN "des_for" ELSE "des_done"
    /\ UNCHANGED << sdt, table, caller, ser, probe >>

\* SectionProperties that takes them from the first section only.
SectionProperties_firstOnly(o, sect) ==
    IF sect.section_number = 0 /\ o.services = << >>
    THEN [o EXCEPT !.version = sect.version,
                   !.is_current = sect.is_current,
                   !.ts_id = sect.tid_ext]
    ELSE o

\* The common properties a section gives the table.
SectionProperties(o, sect) ==
    [o EXCEPT !.version = sect.version,
              !.is_current = sect.is_current,
              !.ts_id = sect.tid_ext]

\* The head of the loop on sections, up to the first service.
DesSection ==
    /\ pc = "des_for"
    /\ des.si < sectionCount(table)
    /\ LET sect == table.sections[des.si + 1]
           size == Len(sect.payload)
       IN  IF ~ExpectedTable(obj, sect)
           THEN /\ pc' = "des_done"
                /\ UNCHANGED << obj, des >>
           ELSE IF ~HasConstantPart(size)
           THEN /\ obj' = SectionProperties(obj, sect)
                /\ pc' = "des_done"
                /\ UNCHANGED des
           ELSE /\ obj' = [SectionProperties(obj, sect) EXCEPT
                               !.onetw_id = GetUInt16(sect.payload, 0)]
                /\ des' = [des EXCEPT !.data = 3, !.remain = size - 3]
                /\ pc' = "des_while"
    /\ UNCHANGED << sdt, table, caller, ser, probe >>

\* ServiceAt that gives a new service each time, so an id met again starts over.
ServiceAt_fresh(services, service_id) == NewService

\* services[service_id]: the service of that id, default-constructed when absent.
ServiceAt(services, service_id) ==
    IF service_id \in DOMAIN services THEN services[service_id] ELSE NewService

\* The map with the service of that id set.
WithService(services, service_id, serv) ==
    [j \in DOMAIN services \cup {service_id} |->
        IF j = service_id THEN serv ELSE services[j]]

\* ReadFlags that keeps the flags a service already in the map has.
ReadFlags_keepFirst(serv, h) ==
    IF serv # NewService THEN serv
    ELSE [serv EXCEPT !.EITs_present = HeaderEITs(h),
                      !.EITpf_present = HeaderEITpf(h),
                      !.running_status = HeaderRunning(h),
                      !.CA_controlled = HeaderCA(h)]

\* The four flags of a service read from the 5-byte header h.
ReadFlags(serv, h) ==
    [serv EXCEPT !.EITs_present = HeaderEITs(h),
                 !.EITpf_present = HeaderEITpf(h),
                 !.running_status = HeaderRunning(h),
                 !.CA_controlled = HeaderCA(h)]

\* ClampLength that trusts the declared length.
ClampLength_declared(info_length, remain) == info_length

\* info_length = std::min (info_length, remain)
ClampLength(info_length, remain) == Min(info_length, remain)

\* HasServiceHeader that takes any byte left for a service description.
HasServiceHeader_anyByte(remain) == remain > 0

\* while (remain >= 5): a 5-byte service header is left in the section.
HasServiceHeader(remain) == remain >= 5

\* One service description: the 5-byte header and its descriptor bytes.
DesEntry ==
    /\ pc = "des_while"
    /\ HasServiceHeader(des.remain)
    /\ LET payload     == table.sections[des.si + 1].payload
           h           == ReadBytes(payload, des.data, 5)
           service_id  == GetUInt16(h, 0)
           left        == des.remain - 5
           info_length == ClampLength(HeaderInfoLength(h), left)
           bytes       == ReadBytes(payload, des.data + 5, info_length)
           serv        == ReadFlags(ServiceAt(obj.services, service_id), h)
       IN  /\ obj' = [obj EXCEPT !.services =
                         WithService(obj.services, service_id,
                            [serv EXCEPT !.descs = addBytes(serv.descs, bytes)])]
           /\ des' = [des EXCEPT
                  !.data = des.data + 5 + info_length,
                  !.remain = left - info_length,
                  !.added = Append(des.added,
                               [si |-> des.si, service_id |-> service_id,
                                declared |-> HeaderInfoLength(h), left |-> left,
                                size |-> info_length, bytes |-> bytes])]
    /\ pc' = "des_while"
    /\ UNCHANGED << sdt, table, caller, ser, probe >>

\* Fewer than 5 bytes remain in the section: ++si.
DesSectionEnd ==
    /\ pc = "des_while"
    /\ ~HasServiceHeader(des.remain)
    /\ des' = [des EXCEPT !.si = des.si + 1]
    /\ pc' = "des_for"
    /\ UNCHANGED << sdt, table, obj, caller, ser, probe >>

\* All sections were read: _is_valid = true.
DesEnd ==
    /\ pc = "des_for"
    /\ des.si >= sectionCount(table)
    /\ obj' = [obj EXCEPT !._is_valid = TRUE]
    /\ pc' = "des_done"
    /\ UNCHANGED << sdt, table, caller, ser, des, probe >>

(***************************************************************************)
(* The tables serialize is called on.                                      *)
(***************************************************************************)
\* A descriptor of n payload bytes.
Desc(tag, n) == << tag, n >> \o [i \in 1..n |-> (tag + i) % 256]

\* Descriptor lists of at most MaxDescs descriptors; the first one has the
\* tag of a service descriptor, and each is empty or of the largest size.
ListChoices ==
    UNION { { [i \in 1..k |-> Desc(DID_SERVICE + i - 1, f[i])] :
                f \in [1..k -> {0, MaxDescPayload}] } : k \in 0..MaxDescs }

\* running_status is a uint8_t; the wire format has 3 bits for it.
RunningChoices == 0..7 \cup {9}

FlagChoices ==
    [EITs_present : BOOLEAN, EITpf_present : BOOLEAN,
     running_status : RunningChoices, CA_controlled : BOOLEAN]

MkService(f, descs) ==
    [EITs_present |-> f.EITs_present, EITpf_present |-> f.EITpf_present,
     running_status |-> f.running_status, CA_controlled |-> f.CA_controlled,
     descs |-> descs]

\* The flags the i-th service of a table of several services has.
FlagsOf(i) ==
    IF i % 2 = 1
    THEN [EITs_present |-> TRUE, EITpf_present |-> FALSE,
          running_status |-> 5, CA_controlled |-> TRUE]
    ELSE [EITs_present |-> FALSE, EITpf_present |-> TRUE,
          running_status |-> 2, CA_controlled |-> FALSE]

\* The id of the i-th service: 0x1111, 0x2222, ...
SID(i) == (i * 4369) % 65536

\* SDT(is_actual, version, is_current, ts_id, onetw_id), then its services.
MkSDT(valid, is_actual, version, is_current, ts_id, onetw_id, services) ==
    [_is_valid |-> valid,
     _table_id |-> IF is_actual THEN TID_SDT_ACT ELSE TID_SDT_OTH,
     version |-> version, is_current |-> is_current,
     ts_id |-> ts_id, onetw_id |-> onetw_id, services |-> services]

ActualSDT(valid, services) == MkSDT(valid, TRUE, 0, TRUE, 258, 772, services)

OtherSDT(valid, services) == MkSDT(valid, FALSE, 31, FALSE, 65534, 255, services)

\* One service, every combination of flags, every descriptor list.
OneServiceTables ==
    { ActualSDT(TRUE, [j \in {SID(1)} |-> MkService(f, l)]) :
        f \in FlagChoices, l \in ListChoices }

\* Up to MaxServices services, every descriptor list for each.
SeveralServicesTables ==
    UNION { { OtherSDT(TRUE, [j \in {SID(i) : i \in 1..n} |->
                                MkService(FlagsOf(j \div 4369), ls[j \div 4369])]) :
                ls \in [1..n -> ListChoices] } : n \in 0..MaxServices }

\* n services without descriptors, ids 0 .. n-1.
EmptyServicesTable(n) ==
    ActualSDT(TRUE, [j \in 0..(n - 1) |-> MkService(FlagsOf(j), << >>)])

EmptyServicesTables == { EmptyServicesTable(n) : n \in 0..MaxEmptyServices }

\* Tables whose validity flag is false.
InvalidTables ==
    { ActualSDT(FALSE, [j \in {SID(i) : i \in 1..n} |->
                           MkService(FlagsOf(j \div 4369), l)]) :
        n \in 0..1, l \in ListChoices }

\* A descriptor of the largest size a section can hold after the 3 constant
\* bytes and a 5-byte service header.
LargestDesc(tag) == Desc(tag, MAX_PSI_LONG_SECTION_PAYLOAD_SIZE - 8 - 2)

\* One or two services whose descriptor lists hold descriptors of that size.
LargestDescTables ==
    { ActualSDT(TRUE, [j \in {SID(i) : i \in 1..n} |->
                          MkService(FlagsOf(j \div 4369), l)]) :
        n \in 1..2,
        l \in { << LargestDesc(DID_SERVICE) >>,
                << LargestDesc(DID_SERVICE), LargestDesc(DID_SERVICE + 1) >>,
                << Desc(DID_SERVICE + 1, 0), LargestDesc(DID_SERVICE) >> } }

SerializeInputs ==
    OneServiceTables \cup SeveralServicesTables \cup EmptyServicesTables
        \cup InvalidTables \cup LargestDescTables

(***************************************************************************)
(* The binary tables deserialize is called on.                              *)
(***************************************************************************)
MkSection(table_id, tid_ext, version, is_current, payload) ==
    [table_id |-> table_id, is_private_section |-> TRUE, tid_ext |-> tid_ext,
     version |-> version, is_current |-> is_current,
     section_number |-> 0, last_section_number |-> 0, payload |-> payload]

\* Payloads, byte by byte.  onetw_id 0x0304 and the reserved byte:
Hdr == << 3, 4, 255 >>

\* service 0x1111: EITs, running 5, length 3, one descriptor (72, 1, 9)
Entry1 == << 17, 17, 254, 160, 3, 72, 1, 9 >>

\* service 0x2222: EITpf, running 2, CA, length 0
Entry2 == << 34, 34, 253, 80, 0 >>

\* service 0x1111 again: EITpf, running 1, CA, length 2, one descriptor (74, 0)
Entry1b == << 17, 17, 253, 48, 2, 74, 0 >>

\* service 0x1111: both EIT flags, running 7, declared length 4095, 3 bytes follow
EntryOver == << 17, 17, 255, 239, 255, 72, 1, 9 >>

\* service 5: reserved bits of the flags byte clear, EITs, running 0, length 0
Entry3 == << 0, 5, 2, 0, 0 >>

FullPayloads ==
    { Hdr \o Entry1 \o Entry2,
      Hdr \o Entry1 \o Entry1b,
      Hdr \o EntryOver,
      << 0, 255, 0 >> \o Entry2 \o Entry3 \o Entry1 }

\* Every prefix of them: payloads cut anywhere.
PayloadChoices ==
    UNION { { SubSeq(p, 1, n) : n \in 0..Len(p) } : p \in FullPayloads }

OneSectionTables ==
    { [valid |-> v, sections |-> << MkSection(tid, 4660, 7, FALSE, p) >>] :
        v \in BOOLEAN, tid \in {TID_SDT_ACT, TID_SDT_OTH, 0}, p \in PayloadChoices }

\* Sections for tables of several sections: sections that disagree on the
\* version, the current flag, the ids and the table id, a section whose
\* payload is too short, one with trailing bytes.
SectionChoices ==
    { MkSection(TID_SDT_ACT, 258, 1, TRUE, Hdr \o Entry1 \o Entry2),
      MkSection(TID_SDT_ACT, 4660, 2, FALSE, << 0, 255, 0 >> \o Entry1b),
      MkSection(TID_SDT_ACT, 258, 1, TRUE, << 3, 4 >>),
      MkSection(TID_SDT_OTH, 258, 1, TRUE, Hdr \o Entry2),
      MkSection(TID_SDT_ACT, 258, 3, TRUE, Hdr \o Entry3 \o << 1, 2, 3, 4 >>),
      MkSection(TID_SDT_ACT, 772, 1, TRUE, Hdr \o EntryOver) }

SeveralSectionsTables ==
    UNION { { [valid |-> TRUE, sections |-> ss] : ss \in [1..n -> SectionChoices] } :
              n \in 2..MaxInSections }

DeserializeInputs == OneSectionTables \cup SeveralSectionsTables

\* What a binary table or an SDT object holds before the call.
JunkTable ==
    [valid |-> TRUE, sections |-> << MkSection(TID_SDT_ACT, 1, 1, TRUE, Hdr \o Entry2) >>]

DirtySDT == OtherSDT(TRUE, [j \in {7} |-> MkService(FlagsOf(1), << Desc(DID_SERVICE, 0) >>)])

\* SDT(const BinaryTable&) before its call of deserialize.
FreshSDT == MkSDT(FALSE, TRUE, 0, TRUE, 0, 0, << >>)

NoProbe == [serv |-> NewService, length |-> 0, header |-> << >>,
            read_serv |-> NewService, read_length |-> 0]

InitRoundTrip ==
    /\ sdt \in SerializeInputs
    /\ table \in {EmptyTable, JunkTable}
    /\ obj = DirtySDT
    /\ pc = "serialize"
    /\ caller = "roundtrip"
    /\ ser = NoLocals
    /\ des = NoDesLocals
    /\ probe = NoProbe

InitDecode ==
    /\ sdt = FreshSDT
    /\ table \in DeserializeInputs
    /\ obj \in {FreshSDT, DirtySDT}
    /\ pc = "deserialize"
    /\ caller = "decode"
    /\ ser = NoLocals
    /\ des = NoDesLocals
    /\ probe = NoProbe

Init == InitRoundTrip \/ InitDecode

Next ==
    \/ SerBegin
    \/ SerService
    \/ SerFit
    \/ SerAdvance
    \/ SerHeader
    \/ SerDescs
    \/ SerSplit
    \/ SerFinish
    \/ DesBegin
    \/ DesSection
    \/ DesEntry
    \/ DesSectionEnd
    \/ DesEnd

Spec == Init /\ [][Next]_vars

(***************************************************************************)
(* The round trip run to its end: a sequential program takes its next step  *)
(* whenever it has one.  The tables are those of two services with every    *)
(* pair of descriptor lists, those of services without descriptors and      *)
(* those with descriptors of the largest size.                              *)
(***************************************************************************)
TwoServicesTables ==
    { OtherSDT(TRUE, [j \in {SID(1), SID(2)} |->
                        MkService(FlagsOf(j \div 4369), ls[j \div 4369])]) :
        ls \in [1..2 -> ListChoices] }

InitLive ==
    /\ sdt \in TwoServicesTables \cup EmptyServicesTables \cup LargestDescTables
    /\ table = EmptyTable
    /\ obj = DirtySDT
    /\ pc = "serialize"
    /\ caller = "roundtrip"
    /\ ser = NoLocals
    /\ des = NoDesLocals
    /\ probe = NoProbe

SpecLive == InitLive /\ [][Next]_vars /\ WF_vars(Next)

(***************************************************************************)
(* A table that needs more sections than the 8-bit section number counts.   *)
(***************************************************************************)
\* The services without descriptors that fill 256 sections, and one more.
WrapServices == 256 * ((MAX_PSI_LONG_SECTION_PAYLOAD_SIZE - 3) \div 5) + 1

InitWrap ==
    /\ sdt = EmptyServicesTable(WrapServices)
    /\ table = EmptyTable
    /\ obj = FreshSDT
    /\ pc = "serialize"
    /\ caller = "roundtrip"
    /\ ser = NoLocals
    /\ des = NoDesLocals
    /\ probe = NoProbe

SpecWrap == InitWrap /\ [][Next]_vars

(***************************************************************************)
(* The 5-byte service header on its own: written as serialize writes it     *)
(* (service id, flags byte, length field patched with the status bits),     *)
(* read as deserialize reads it, for every 12-bit length.                   *)
(***************************************************************************)
LengthChoices == 0..4095

\* The header serialize writes for a service whose descriptors take length bytes.
PackHeader(service_id, serv, length) ==
    LET field == LengthField(length)
    IN  PutUInt16(service_id) \o << FlagsByte(serv) >>
            \o << StatusByte(field[1], serv), field[2] >>

InitBits ==
    /\ sdt = FreshSDT
    /\ table = EmptyTable
    /\ obj = FreshSDT
    /\ pc = "bits_pack"
    /\ caller = "bits"
    /\ ser = NoLocals
    /\ des = NoDesLocals
    /\ \E f \in FlagChoices, n \in LengthChoices :
          probe = [NoProbe EXCEPT !.serv = MkService(f, << >>), !.length = n]

BitsPack ==
    /\ pc = "bits_pack"
    /\ probe' = [probe EXCEPT !.header = PackHeader(SID(1), probe.serv, probe.length)]
    /\ pc' = "bits_unpack"
    /\ UNCHANGED << sdt, table, obj, caller, ser, des >>

BitsUnpack ==
    /\ pc = "bits_unpack"
    /\ probe' = [probe EXCEPT
                   !.read_serv = ReadFlags(NewService, probe.header),
                   !.read_length = HeaderInfoLength(probe.header)]
    /\ pc' = "bits_done"
    /\ UNCHANGED << sdt, table, obj, caller, ser, des >>

NextBits == BitsPack \/ BitsUnpack

SpecBits == InitBits /\ [][NextBits]_vars

(***************************************************************************)
(* Descriptor and DescriptorList, as the accessors of SDT::Service use      *)
(* them.  A std::string is the sequence of its bytes.                       *)
(***************************************************************************)
\* Descriptor::payloadSize()
payloadSize(d) == Len(d) - 2

\* payload(): the bytes after the tag and the length byte.
payloadBytes(d) == SubSeq(d, 3, Len(d))

\* DescriptorList::search(tag): the index (0-based) of the first descriptor
\* with that tag, count() when there is none.
search(descs, tag) ==
    LET found == { i \in 1..Len(descs) : Len(descs[i]) >= 1 /\ descs[i][1] = tag }
    IN  IF found = {} THEN count(descs)
        ELSE (CHOOSE i \in found : \A k \in found : i <= k) - 1

\* std::string(data + off, length): length bytes of data from offset off (0-based).
StringAt(data, off, length) == SubSeq(data, off + 1, off + length)

(***************************************************************************)
(* SDT::Service::serviceType, providerName and serviceName.                 *)
(***************************************************************************)
serviceType(serv) ==
    LET index == search(serv.descs, DID_SERVICE)
    IN  IF index >= count(serv.descs) \/ payloadSize(serv.descs[index + 1]) < 1
        THEN 0
        ELSE payloadBytes(serv.descs[index + 1])[1]

providerName(serv) ==
    LET index == search(serv.descs, DID_SERVICE)
    IN  IF index >= count(serv.descs) \/ payloadSize(serv.descs[index + 1]) < 2
        THEN << >>
        ELSE LET data   == payloadBytes(serv.descs[index + 1])
                 size   == payloadSize(serv.descs[index + 1])
                 length == Min(data[2], size - 2)
             IN  StringAt(data, 2, length)

\* serviceName that takes the first length-prefixed string, the provider name.
serviceName_firstString(serv) ==
    LET index == search(serv.descs, DID_SERVICE)
    IN  IF index >= count(serv.descs) \/ payloadSize(serv.descs[index + 1]) < 2
        THEN << >>
        ELSE LET data   == payloadBytes(serv.descs[index + 1])
                 size   == payloadSize(serv.descs[index + 1])
                 length == Min(data[2], size - 2)
             IN  StringAt(data, 2, length)

serviceName(serv) ==
    LET index == search(serv.descs, DID_SERVICE)
    IN  IF index >= count(serv.descs) \/ payloadSize(serv.descs[index + 1]) < 2
        THEN << >>
        ELSE LET data   == payloadBytes(serv.descs[index + 1])
                 size   == payloadSize(serv.descs[index + 1])
                 length == Min(data[2], size - 2)
                 \* data += 2 + length; size -= 2 + length
                 off    == 2 + length
                 left   == size - (2 + length)
             IN  IF left <= 0 THEN << >>
                 ELSE StringAt(data, off + 1, Min(data[off + 1], left - 1))

(***************************************************************************)
(* SDT::findService(name, service_id, exact_match).                         *)
(***************************************************************************)
\* SimilarStrings: equal when letter case and blanks are ignored.
LowerCase(b) == IF b \in 65..90 THEN b + 32 ELSE b

Squeeze(s) ==
    LET kept == SelectSeq(s, LAMBDA b : b # 32)
    IN  [i \in 1..Len(kept) |-> LowerCase(kept[i])]

SimilarStrings(a, b) == Squeeze(a) = Squeeze(b)

\* The test of the loop body.
Matches(service_name, name, exact_match) ==
    \/ exact_match /\ service_name = name
    \/ ~exact_match /\ SimilarStrings(service_name, name)

\* The locals and parameters of findService; service_id is the caller's
\* variable, which holds anything before the call.
FindCall(name, exact_match, names) ==
    [name |-> name, exact_match |-> exact_match, service_id |-> 65535,
     it |-> End, result |-> FALSE, names |-> names]

\* it = services.begin()
FindBegin ==
    /\ pc = "findService"
    /\ probe' = [probe EXCEPT !.it = FirstKey(sdt.services)]
    /\ pc' = "find_for"
    /\ UNCHANGED << sdt, table, obj, caller, ser, des >>

\* One pass of the loop: return true on a match, ++it otherwise.
FindTest ==
    /\ pc = "find_for"
    /\ probe.it # End
    /\ IF Matches(serviceName(sdt.services[probe.it]), probe.name, probe.exact_match)
       THEN /\ probe' = [probe EXCEPT !.service_id = probe.it, !.result = TRUE]
            /\ pc' = "find_done"
       ELSE /\ probe' = [probe EXCEPT !.it = NextKey(sdt.services, probe.it)]
            /\ pc' = "find_for"
    /\ UNCHANGED << sdt, table, obj, caller, ser, des >>

\* Service not found.
FindNotFound ==
    /\ pc = "find_for"
    /\ probe.it = End
    /\ probe' = [probe EXCEPT !.service_id = 0, !.result = FALSE]
    /\ pc' = "find_done"
    /\ UNCHANGED << sdt, table, obj, caller, ser, des >>

\* Strings: "Sports", "sports", "News", "ACME", "Sp".
Sports == << 83, 112, 111, 114, 116, 115 >>

sports == << 115, 112, 111, 114, 116, 115 >>

News == << 78, 101, 119, 115 >>

ACME == << 65, 67, 77, 69 >>

Sp == << 83, 112 >>

\* A service descriptor: type, length-prefixed provider, length-prefixed name.
ServiceDescriptor(type, provider, name) ==
    << DID_SERVICE, U8(3 + Len(provider) + Len(name)), type, U8(Len(provider)) >>
        \o provider \o << U8(Len(name)) >> \o name

\* Descriptor lists, each with the name its first service descriptor gives:
\* no descriptor; provider and name; an empty provider; another descriptor
\* first, then two service descriptors; a payload of 1 byte; a provider length
\* that takes the rest of the payload; a name length larger than what is left.
NamedLists ==
    { [descs |-> << >>, name |-> << >>],
      [descs |-> << ServiceDescriptor(1, ACME, Sports) >>, name |-> Sports],
      [descs |-> << ServiceDescriptor(1, << >>, News) >>, name |-> News],
      [descs |-> << Desc(DID_SERVICE + 1, 0), ServiceDescriptor(2, ACME, Sports),
                    ServiceDescriptor(1, ACME, News) >>, name |-> Sports],
      [descs |-> << << DID_SERVICE, 1, 5 >>, ServiceDescriptor(1, ACME, Sports) >>,
       name |-> << >>],
      [descs |-> << << DID_SERVICE, 4, 1, 200 >> \o Sp >>, name |-> << >>],
      [descs |-> << << DID_SERVICE, 5, 1, 0, 9 >> \o Sp >>, name |-> Sp] }

MaxNamedServices == 3

\* Tables of up to MaxNamedServices services, ids 0x0101, 0x0202, ...
NamedTables ==
    UNION { [ { i * 257 : i \in 1..n } -> NamedLists ] : n \in 0..MaxNamedServices }

InitFind ==
    /\ \E t \in NamedTables :
       \E name \in {Sports, sports, News, Sp, << >>}, exact_match \in BOOLEAN :
          /\ sdt = ActualSDT(TRUE, [j \in DOMAIN t |-> MkService(FlagsOf(1), t[j].descs)])
          /\ probe = FindCall(name, exact_match, [j \in DOMAIN t |-> t[j].name])
    /\ table = EmptyTable
    /\ obj = FreshSDT
    /\ pc = "findService"
    /\ caller = "find"
    /\ ser = NoLocals
    /\ des = NoDesLocals

NextFind == FindBegin \/ FindTest \/ FindNotFound

SpecFind == InitFind /\ [][NextFind]_vars

(***************************************************************************)
(* SDT::Service::setName(name, service_type).                               *)
(***************************************************************************)
\* Descriptor::replacePayload: the new payload after the tag, the length byte
\* recomputed.
replacePayload(d, new_payload) == << d[1], U8(Len(new_payload)) >> \o new_payload

\* DescriptorList::add(DescriptorPtr): the descriptor is appended.
addDescriptor(descs, d) == Append(descs, d)

\* The descriptor setName builds when there is no valid service descriptor.
NewNameDescriptor(name, service_type) ==
    << DID_SERVICE, U8(3 + Len(name)), service_type, 0, U8(Len(name)) >> \o name

\* The payload setName builds from the one of an existing descriptor.
NewNamePayload(old_payload, name) ==
    LET payload_size    == Len(old_payload)
        provider_length == Min(old_payload[2], payload_size - 2)
    IN  StringAt(old_payload, 0, 2 + provider_length) \o << U8(Len(name)) >> \o name

\* index >= descs.count() || descs[index]->payloadSize() < 2
NoValidServiceDescriptor(descs, index) ==
    index >= count(descs) \/ payloadSize(descs[index + 1]) < 2

\* The service after setName(name, service_type).
setName(serv, name, service_type) ==
    LET index == search(serv.descs, DID_SERVICE)
    IN  IF NoValidServiceDescriptor(serv.descs, index)
        THEN [serv EXCEPT !.descs =
                 addDescriptor(serv.descs, NewNameDescriptor(name, service_type))]
        ELSE [serv EXCEPT !.descs[index + 1] =
                 replacePayload(serv.descs[index + 1],
                                NewNamePayload(payloadBytes(serv.descs[index + 1]), name))]

\* A name of 252 bytes.
LongName == [i \in 1..252 |-> 120]

\* Descriptor lists by kind: no service descriptor; a well-formed one (alone,
\* with an empty provider, after another descriptor and before a second
\* service descriptor); one with a payload of 0 or 1 byte; one whose provider
\* length does not agree with the payload size.
KindLists ==
    { [kind |-> "none", descs |-> << >>],
      [kind |-> "none", descs |-> << Desc(DID_SERVICE + 1, 0) >>],
      [kind |-> "well_formed", descs |-> << ServiceDescriptor(1, ACME, Sports) >>],
      [kind |-> "well_formed", descs |-> << ServiceDescriptor(25, << >>, News) >>],
      [kind |-> "well_formed", descs |-> << ServiceDescriptor(1, << >>, << >>) >>],
      [kind |-> "well_formed",
       descs |-> << Desc(DID_SERVICE + 1, 0), ServiceDescriptor(2, ACME, Sports),
                    ServiceDescriptor(1, ACME, News) >>],
      [kind |-> "short", descs |-> << << DID_SERVICE, 0 >> >>],
      [kind |-> "short", descs |-> << << DID_SERVICE, 1, 5 >> >>],
      [kind |-> "short", descs |-> << Desc(DID_SERVICE + 1, 0), << DID_SERVICE, 1, 5 >> >>],
      [kind |-> "inconsistent", descs |-> << << DID_SERVICE, 4, 1, 200 >> \o Sp >>] }

\* What the three accessors return.
Accessors(serv) ==
    [serviceType |-> serviceType(serv), providerName |-> providerName(serv),
     serviceName |-> serviceName(serv)]

InitName ==
    /\ \E l \in KindLists, f \in {FlagsOf(1), FlagsOf(2)} :
       \E name \in {<< >>, Sp, Sports, News, LongName}, service_type \in {1, 2, 25} :
          probe = [kind |-> l.kind, serv |-> MkService(f, l.descs),
                   name |-> name, service_type |-> service_type,
                   before |-> Accessors(MkService(f, l.descs)),
                   after |-> Accessors(NewService)]
    /\ sdt = FreshSDT
    /\ table = EmptyTable
    /\ obj = FreshSDT
    /\ pc = "setName"
    /\ caller = "name"
    /\ ser = NoLocals
    /\ des = NoDesLocals

\* A descriptor holds at most 255 payload bytes, what its length byte counts.
\* What replacePayload makes of a longer payload is not specified: the
\* descriptor keeps the bytes, with the length byte of replacePayload above,
\* or it is left without data, an invalid descriptor no search finds.
Oversize(d) == payloadSize(d) > 255

AfterReplace(serv) ==
    {serv} \cup { [serv EXCEPT !.descs[i] = << >>] :
                     i \in { k \in 1..Len(serv.descs) : Oversize(serv.descs[k]) } }

\* serv.setName(name, service_type)
SetName ==
    /\ pc = "setName"
    /\ \E after \in AfterReplace(setName(probe.serv, probe.name, probe.service_type)) :
          probe' = [probe EXCEPT !.serv = after]
    /\ pc' = "accessors"
    /\ UNCHANGED << sdt, table, obj, caller, ser, des >>

\* serv.serviceType(), serv.providerName(), serv.serviceName()
ReadAccessors ==
    /\ pc = "accessors"
    /\ probe' = [probe EXCEPT !.after = Accessors(probe.serv)]
    /\ pc' = "accessors_done"
    /\ UNCHANGED << sdt, table, obj, caller, ser, des >>

NextName == SetName \/ ReadAccessors

SpecName == InitName /\ [][NextName]_vars

(***************************************************************************)
(* SDT::Service::setProvider(provider, service_type).                       *)
(***************************************************************************)
\* "Locate existing service type": the first payload byte when there is one.
ExistingType(old_payload, service_type) ==
    IF Len(old_payload) >= 1 THEN old_payload[1] ELSE service_type

\* ExistingName that finds no name.
ExistingName_none(old_payload) == << >>

\* "Locate existing service name": the string after the provider, when its
\* length byte is inside the payload.
ExistingName(old_payload) ==
    LET payload_size == Len(old_payload)
    IN  IF payload_size >= 2 /\ 2 + old_payload[2] + 1 <= payload_size
        THEN LET provider_size == old_payload[2]
                 name_size == Min(old_payload[2 + provider_size + 1],
                                  payload_size - 2 - provider_size - 1)
             IN  StringAt(old_payload, 2 + provider_size + 1, name_size)
        ELSE << >>

\* The descriptor setProvider builds when the payload size is 0.
NewProviderDescriptor(provider, service_type) ==
    << DID_SERVICE, U8(3 + Len(provider)), service_type, U8(Len(provider)) >>
        \o provider \o << 0 >>

\* The payload setProvider builds otherwise.
NewProviderPayload(service_type, provider, name) ==
    << service_type, U8(Len(provider)) >> \o provider \o << U8(Len(name)) >> \o name

\* The service after setProvider(provider, service_type).
setProvider(serv, provider, service_type) ==
    LET index       == search(serv.descs, DID_SERVICE)
        old_payload == IF index >= count(serv.descs) THEN << >>
                       ELSE payloadBytes(serv.descs[index + 1])
        type        == ExistingType(old_payload, service_type)
        name        == ExistingName(old_payload)
    IN  IF Len(old_payload) = 0
        THEN [serv EXCEPT !.descs =
                 addDescriptor(serv.descs, NewProviderDescriptor(provider, type))]
        ELSE [serv EXCEPT !.descs[index + 1] =
                 replacePayload(serv.descs[index + 1],
                                NewProviderPayload(type, provider, name))]

InitProvider ==
    /\ \E l \in KindLists, f \in {FlagsOf(1), FlagsOf(2)} :
       \E provider \in {<< >>, Sp, ACME, LongName}, service_type \in {1, 2, 25} :
          probe = [kind |-> l.kind, serv |-> MkService(f, l.descs),
                   provider |-> provider, service_type |-> service_type,
                   before |-> Accessors(MkService(f, l.descs)),
                   descs_before |-> l.descs,
                   after |-> Accessors(NewService)]
    /\ sdt = FreshSDT
    /\ table = EmptyTable
    /\ obj = FreshSDT
    /\ pc = "setProvider"
    /\ caller = "provider"
    /\ ser = NoLocals
    /\ des = NoDesLocals

\* serv.setProvider(provider, service_type)
SetProvider ==
    /\ pc = "setProvider"
    /\ \E after \in AfterReplace(setProvider(probe.serv, probe.provider, probe.service_type)) :
          probe' = [probe EXCEPT !.serv = after]
    /\ pc' = "accessors"
    /\ UNCHANGED << sdt, table, obj, caller, ser, des >>

NextProvider == SetProvider \/ ReadAccessors

SpecProvider == InitProvider /\ [][NextProvider]_vars

(***************************************************************************)
(* Vocabulary of the properties.                                           *)
(***************************************************************************)
\* serialize has run on sdt, and deserialize on what it produced.
RoundTripDone == caller = "roundtrip" /\ pc = "des_done"

\* table holds what serialize has emitted so far.
Emitting == caller = "roundtrip" /\ pc # "serialize"

\* serialize has returned.
Emitted == caller = "roundtrip" /\ pc \in {"ser_done", "des_for", "des_while", "des_done"}

\* serialize is between its first and its last statement.
InSerialize == pc \in {"ser_for", "ser_while", "ser_header", "ser_descs", "ser_split"}

RECURSIVE SumOver(_, _)
SumOver(services, ids) ==
    IF ids = {} THEN 0
    ELSE LET j == CHOOSE x \in ids : TRUE
         IN  5 + binarySize(services[j].descs) + SumOver(services, ids \ {j})

\* The bytes of the constant part and of every service, header and descriptors.
EncodedSize(t) == 3 + SumOver(t.services, DOMAIN t.services)

StatusInRange(t) == \A j \in DOMAIN t.services : t.services[j].running_status \in 0..7

\* The service ids deserialize met in two sections or more.
SplitIds ==
    { des.added[i].service_id : i \in
        { i \in 1..Len(des.added) :
            \E k \in 1..Len(des.added) :
                /\ des.added[k].service_id = des.added[i].service_id
                /\ des.added[k].si # des.added[i].si } }

SameFlags(a, b) ==
    /\ a.EITs_present = b.EITs_present
    /\ a.EITpf_present = b.EITpf_present
    /\ a.running_status = b.running_status
    /\ a.CA_controlled = b.CA_controlled

(***************************************************************************)
(* C1. Round trip of a table that fits in one section: for a valid table    *)
(* whose services have a running_status in 0..7 and whose encoded size is   *)
(* at most one section payload, deserialize of what serialize emitted gives *)
(* a valid table with the same table id, version, current flag, ts_id and   *)
(* onetw_id and the same service map (ids, flags, descriptors in order).    *)
(***************************************************************************)
C1_RoundTrip ==
    (/\ RoundTripDone
     /\ sdt._is_valid
     /\ StatusInRange(sdt)
     /\ EncodedSize(sdt) <= MAX_PSI_LONG_SECTION_PAYLOAD_SIZE)
    => /\ obj._is_valid
       /\ obj._table_id = sdt._table_id
       /\ obj.version = sdt.version
       /\ obj.is_current = sdt.is_current
       /\ obj.ts_id = sdt.ts_id
       /\ obj.onetw_id = sdt.onetw_id
       /\ DOMAIN obj.services = DOMAIN sdt.services
       /\ \A j \in DOMAIN sdt.services :
             /\ SameFlags(obj.services[j], sdt.services[j])
             /\ obj.services[j].descs = sdt.services[j].descs

\* A round trip of two services in one section, one of them with a descriptor.
C1_Witness ==
    /\ RoundTripDone
    /\ sdt._is_valid
    /\ StatusInRange(sdt)
    /\ EncodedSize(sdt) <= MAX_PSI_LONG_SECTION_PAYLOAD_SIZE
    /\ Cardinality(DOMAIN sdt.services) >= 2
    /\ \E j \in DOMAIN sdt.services : Len(sdt.services[j].descs) >= 1
    /\ Len(table.sections) = 1
    /\ obj.services = sdt.services

(***************************************************************************)
(* C2. Split round trip.  As claimed: for any valid table, a service whose  *)
(* descriptors serialize spread over two or more sections is read back with *)
(* the same descriptors in the same order and the same four flag values.    *)
(***************************************************************************)
C2_SplitRoundTripAnyStatus ==
    (RoundTripDone /\ sdt._is_valid)
    => \A j \in SplitIds :
          /\ j \in DOMAIN sdt.services
          /\ obj._is_valid
          /\ obj.services[j].descs = sdt.services[j].descs
          /\ SameFlags(obj.services[j], sdt.services[j])

(***************************************************************************)
(* C2, amended: the descriptors are the same in the same order, and so are  *)
(* EITs_present, EITpf_present and CA_controlled; running_status is read    *)
(* back as its low 3 bits, so it is the same when it is in 0..7.            *)
(***************************************************************************)
C2_SplitRoundTrip ==
    (RoundTripDone /\ sdt._is_valid)
    => \A j \in SplitIds :
          /\ j \in DOMAIN sdt.services
          /\ obj._is_valid
          /\ obj.services[j].descs = sdt.services[j].descs
          /\ Len(obj.services[j].descs) = Len(sdt.services[j].descs)
          /\ obj.services[j].EITs_present = sdt.services[j].EITs_present
          /\ obj.services[j].EITpf_present = sdt.services[j].EITpf_present
          /\ obj.services[j].CA_controlled = sdt.services[j].CA_controlled
          /\ obj.services[j].running_status = sdt.services[j].running_status % 8

\* A service split after another service, read back whole.
C2_Witness ==
    /\ RoundTripDone
    /\ sdt._is_valid
    /\ Cardinality(DOMAIN sdt.services) >= 2
    /\ \E j \in SplitIds :
          /\ Len(sdt.services[j].descs) >= 2
          /\ obj.services[j] = sdt.services[j]
          /\ \E i \in DOMAIN sdt.services : i < j

(***************************************************************************)
(* C3. Payload bound: every section serialize emits has a payload of at     *)
(* least 3 and at most MAX_PSI_LONG_SECTION_PAYLOAD_SIZE bytes, all of them *)
(* written bytes, and the write cursor stays inside the working buffer,     *)
(* with data + remain the size of the buffer.                               *)
(***************************************************************************)
C3_PayloadBound ==
    /\ Emitting =>
          \A i \in 1..Len(table.sections) :
             /\ Len(table.sections[i].payload) >= 3
             /\ Len(table.sections[i].payload) <= MAX_PSI_LONG_SECTION_PAYLOAD_SIZE
             /\ \A k \in 1..Len(table.sections[i].payload) :
                   table.sections[i].payload[k] \in Byte
    /\ InSerialize =>
          /\ ser.data >= 3
          /\ ser.data <= MAX_PSI_LONG_SECTION_PAYLOAD_SIZE
          /\ ser.remain >= 0
          /\ ser.data + ser.remain = MAX_PSI_LONG_SECTION_PAYLOAD_SIZE

\* A section filled to the last byte, followed by another one.
C3_Witness ==
    /\ Emitted
    /\ Len(table.sections) >= 2
    /\ Len(table.sections[1].payload) = MAX_PSI_LONG_SECTION_PAYLOAD_SIZE

(***************************************************************************)
(* C4. Invalid input is flagged: when deserialize has returned, the table   *)
(* is marked invalid if the binary table was not valid, or some section,    *)
(* wherever it is, has another table id than the binary table, or some      *)
(* section has a payload of less than 3 bytes; and no read of deserialize   *)
(* is past the end of a payload.                                           *)
(***************************************************************************)
C4_InvalidFlagged ==
    /\ (/\ pc = "des_done"
        /\ \/ ~table.valid
           \/ \E i \in 1..Len(table.sections) :
                 table.sections[i].table_id # tableId(table)
           \/ \E i \in 1..Len(table.sections) : Len(table.sections[i].payload) < 3)
       => ~obj._is_valid
    /\ pc = "des_while" => des.data <= Len(table.sections[des.si + 1].payload)
    /\ \A i \in 1..Len(des.added) : \A k \in 1..Len(des.added[i].bytes) :
          des.added[i].bytes[k] \in Byte

\* A valid binary table whose second section has another table id, after a
\* first section that gave services.
C4_Witness ==
    /\ pc = "des_done"
    /\ table.valid
    /\ Len(table.sections) >= 2
    /\ table.sections[2].table_id # tableId(table)
    /\ Len(table.sections[1].payload) > 3
    /\ \A i \in 1..Len(table.sections) : Len(table.sections[i].payload) >= 3
    /\ ~obj._is_valid

(***************************************************************************)
(* C5. Full reset on failure: whenever deserialize returns with the table   *)
(* marked invalid, the service map is empty and ts_id and onetw_id are 0.   *)
(***************************************************************************)
C5_FullReset ==
    (pc = "des_done" /\ ~obj._is_valid)
    => /\ obj.services = << >>
       /\ obj.ts_id = 0
       /\ obj.onetw_id = 0

(***************************************************************************)
(* C6. Empty table: serialize of a valid table without services emits one   *)
(* section, whose payload is the 3 bytes onetw_id (big-endian), 0xFF;       *)
(* deserialize of it gives a valid table without services.                  *)
(***************************************************************************)
C6_EmptyTable ==
    (caller = "roundtrip" /\ sdt._is_valid /\ DOMAIN sdt.services = {})
    => /\ Emitted =>
             /\ Len(table.sections) = 1
             /\ table.sections[1].payload =
                   << sdt.onetw_id \div 256, sdt.onetw_id % 256, 255 >>
       /\ pc = "des_done" =>
             /\ obj._is_valid
             /\ DOMAIN obj.services = {}

\* The round trip of a valid table without services, into an object that held one.
C6_Witness ==
    /\ RoundTripDone
    /\ sdt._is_valid
    /\ DOMAIN sdt.services = {}
    /\ Len(table.sections) = 1
    /\ obj._is_valid

\* The services of t have no descriptors.
NoDescriptors(t) == \A j \in DOMAIN t.services : t.services[j].descs = << >>

\* ceil(a / b)
CeilDiv(a, b) == (a + b - 1) \div b

\* The number of services without descriptors a section holds.
ServicesPerSection == (MAX_PSI_LONG_SECTION_PAYLOAD_SIZE - 3) \div 5

(***************************************************************************)
(* C7. Section count.  As claimed: a valid table of N services without      *)
(* descriptors is emitted in at least 1 and at most                         *)
(* ceil((N*5+3) / maxPayload) sections.                                     *)
(***************************************************************************)
C7_SectionCountSpecBound ==
    (Emitted /\ sdt._is_valid /\ NoDescriptors(sdt))
    => /\ Len(table.sections) >= 1
       /\ Len(table.sections) <=
             CeilDiv(Cardinality(DOMAIN sdt.services) * 5 + 3,
                     MAX_PSI_LONG_SECTION_PAYLOAD_SIZE)

(***************************************************************************)
(* C7, amended: at least 1 section and at most ceil(N / K), or 1 when N is  *)
(* 0, where K = floor((maxPayload - 3) / 5) is the number of 5-byte service *)
(* headers a section holds after its own 3 constant bytes.                  *)
(***************************************************************************)
C7_SectionCount ==
    (Emitted /\ sdt._is_valid /\ NoDescriptors(sdt))
    => /\ Len(table.sections) >= 1
       /\ Len(table.sections) <=
             IF DOMAIN sdt.services = {} THEN 1
             ELSE CeilDiv(Cardinality(DOMAIN sdt.services), ServicesPerSection)

\* Services without descriptors that take three sections or more.
C7_Witness ==
    /\ Emitted
    /\ sdt._is_valid
    /\ NoDescriptors(sdt)
    /\ Cardinality(DOMAIN sdt.services) >= 5
    /\ Len(table.sections) >= 3
    /\ Len(table.sections) = CeilDiv(Cardinality(DOMAIN sdt.services), ServicesPerSection)

(***************************************************************************)
(* C8. Bit packing: for every combination of EITs_present, EITpf_present,   *)
(* CA_controlled and a running_status in 0..7, and every 12-bit length,     *)
(* the 5-byte header serialize writes is read back by deserialize with the  *)
(* same four values and the same length; the flags byte and the status      *)
(* bits are those written for length 0, and the low 12 bits of the length   *)
(* field are the length, whatever the flags.                                *)
(***************************************************************************)
C8_BitPacking ==
    (pc = "bits_done" /\ probe.serv.running_status \in 0..7)
    => /\ SameFlags(probe.read_serv, probe.serv)
       /\ probe.read_length = probe.length
       /\ Len(probe.header) = 5
       /\ \A k \in 1..5 : probe.header[k] \in Byte
       /\ (probe.header[4] % 16) * 256 + probe.header[5] = probe.length
       /\ probe.header[3] % 4 =
             (IF probe.serv.EITs_present THEN 2 ELSE 0)
                + (IF probe.serv.EITpf_present THEN 1 ELSE 0)
       /\ probe.header[4] \div 16 =
             probe.serv.running_status * 2
                + (IF probe.serv.CA_controlled THEN 1 ELSE 0)

\* A header read back with a length that uses the 4 high bits of the 12 and
\* with flags of both values.
C8_Witness ==
    /\ pc = "bits_done"
    /\ probe.length = 1004
    /\ probe.serv.running_status = 5
    /\ probe.serv.EITs_present
    /\ ~probe.serv.EITpf_present
    /\ probe.serv.CA_controlled
    /\ SameFlags(probe.read_serv, probe.serv)
    /\ probe.read_length = probe.length

\* The binary table passes every check deserialize makes.
AcceptedInput ==
    /\ table.valid
    /\ IsSDTTableId(tableId(table))
    /\ \A i \in 1..Len(table.sections) :
          /\ table.sections[i].table_id = tableId(table)
          /\ Len(table.sections[i].payload) >= 3

\* The call of descs.add number i got a declared length larger than what was left.
Clamped(i) == des.added[i].declared > des.added[i].left

(***************************************************************************)
(* C9. Defensive clamping: when a service header declares more descriptor   *)
(* bytes than the section has left after it, deserialize gives the          *)
(* descriptor list exactly the bytes left, to the end of the payload; the   *)
(* cursor never passes the end of the payload (remain never goes below 0),  *)
(* the section ends there, and the table is valid at the end when the       *)
(* sections pass the checks on table id and payload size.                   *)
(***************************************************************************)
C9_Clamping ==
    /\ pc = "des_while" =>
          /\ des.remain >= 0
          /\ des.data + des.remain = Len(table.sections[des.si + 1].payload)
    /\ \A i \in 1..Len(des.added) :
          LET r       == des.added[i]
              payload == table.sections[r.si + 1].payload
          IN  /\ r.size <= r.left
              /\ Clamped(i) =>
                    /\ r.size = r.left
                    /\ r.bytes = SubSeq(payload, Len(payload) - r.left + 1, Len(payload))
                    /\ (i = Len(des.added) /\ pc = "des_while" /\ des.si = r.si)
                          => des.remain = 0
                    /\ i < Len(des.added) => des.added[i + 1].si > r.si
    /\ (pc = "des_done" /\ AcceptedInput) => obj._is_valid

\* A declared length of 4095 with 3 bytes left, in the first of two sections.
C9_Witness ==
    /\ pc = "des_done"
    /\ obj._is_valid
    /\ Len(table.sections) >= 2
    /\ \E i \in 1..Len(des.added) :
          /\ Clamped(i)
          /\ des.added[i].si = 0
          /\ des.added[i].left = 3
          /\ des.added[i].bytes = << 72, 1, 9 >>
    /\ \E i \in 1..Len(des.added) : des.added[i].si = 1

(***************************************************************************)
(* C10. Section numbering: the sections one serialize call emits carry the  *)
(* section numbers 0, 1, 2, ... in emission order, however many sections    *)
(* the table needs.                                                        *)
(***************************************************************************)
C10_SectionNumbers ==
    Emitting =>
       \A i \in 1..Len(table.sections) :
          /\ table.sections[i].section_number = i - 1
          /\ i > 1 => table.sections[i].section_number
                         > table.sections[i - 1].section_number

(***************************************************************************)
(* C13. Entry header never split: each time serialize is about to write the *)
(* 5-byte header of a service, the first time or on a continuation, at      *)
(* least 5 bytes remain in the working buffer: the assertion remain >= 5    *)
(* never fails, and the 2 bytes of the length field still fit after the     *)
(* first 3 bytes of the header.                                            *)
(***************************************************************************)
C13_HeaderNeverSplit ==
    /\ pc # "assert_failed"
    /\ pc = "ser_header" => ser.remain >= 5
    /\ pc = "ser_descs" => ser.remain >= 2

\* The header of a continuation is about to be written, in a section that
\* follows a full one.
C13_Witness ==
    /\ pc = "ser_header"
    /\ sdt._is_valid
    /\ ser.start_index > 0
    /\ ~ser.starting
    /\ ser.remain >= 5
    /\ Len(table.sections) >= 1

\* bytes is a sequence of whole descriptors: tag, length, length payload bytes.
RECURSIVE WholeDescriptors(_)
WholeDescriptors(bytes) ==
    IF bytes = << >> THEN TRUE
    ELSE /\ Len(bytes) >= 2
         /\ bytes[2] \in 0..(Len(bytes) - 2)
         /\ WholeDescriptors(SubSeq(bytes, 3 + bytes[2], Len(bytes)))

\* bytes is a sequence of entries: a 5-byte header, then as many bytes as the
\* low 12 bits of its length field say, which are whole descriptors.
RECURSIVE WellFormedEntries(_)
WellFormedEntries(bytes) ==
    IF bytes = << >> THEN TRUE
    ELSE /\ Len(bytes) >= 5
         /\ \A k \in 1..5 : bytes[k] \in Byte
         /\ LET n == (bytes[4] % 16) * 256 + bytes[5]
            IN  /\ n <= Len(bytes) - 5
                /\ WholeDescriptors(SubSeq(bytes, 6, 5 + n))
                /\ WellFormedEntries(SubSeq(bytes, 6 + n, Len(bytes)))

\* The number of entries of a well-formed sequence of entries.
RECURSIVE EntryCount(_)
EntryCount(bytes) ==
    IF Len(bytes) < 5 THEN 0
    ELSE LET n == Min((bytes[4] % 16) * 256 + bytes[5], Len(bytes) - 5)
         IN  1 + EntryCount(SubSeq(bytes, 6 + n, Len(bytes)))

\* The bytes of a payload after the 3 constant bytes.
Entries(payload) == SubSeq(payload, 4, Len(payload))

(***************************************************************************)
(* C14. Well-formed payloads: in every section serialize emits, the bytes   *)
(* after the 3 constant bytes are a sequence of entries, each a 5-byte      *)
(* header whose length field holds, in its low 12 bits, the number of       *)
(* descriptor bytes that follow it in that section; these bytes are whole   *)
(* descriptors, and the last entry ends where the payload ends.             *)
(***************************************************************************)
C14_WellFormedPayloads ==
    (Emitting /\ sdt._is_valid) =>
       \A i \in 1..Len(table.sections) :
          /\ Len(table.sections[i].payload) >= 3
          /\ WellFormedEntries(Entries(table.sections[i].payload))

\* Two sections emitted for two services, each with an entry, the first one
\* with descriptor bytes after its header.
C14_Witness ==
    /\ Emitted
    /\ sdt._is_valid
    /\ Cardinality(DOMAIN sdt.services) >= 2
    /\ Len(table.sections) >= 2
    /\ EntryCount(Entries(table.sections[1].payload)) >= 1
    /\ Len(table.sections[1].payload) > 3 + 5
    /\ EntryCount(Entries(table.sections[2].payload)) >= 1
    /\ WellFormedEntries(Entries(table.sections[1].payload))
    /\ WellFormedEntries(Entries(table.sections[2].payload))

(***************************************************************************)
(* C15. No needlessly empty section: for a valid table with at least one    *)
(* service, every section serialize emits holds at least one entry header   *)
(* (its payload is longer than the 3 constant bytes), also when a service   *)
(* larger than an empty section is met while the current section holds      *)
(* only the constant bytes.                                                *)
(***************************************************************************)
C15_NoEmptySection ==
    (Emitted /\ sdt._is_valid /\ DOMAIN sdt.services # {})
    => \A i \in 1..Len(table.sections) : Len(table.sections[i].payload) > 3

\* The entries of a sequence of entries: the service id of each 5-byte header
\* and the descriptor bytes its length field counts.
RECURSIVE EntryList(_)
EntryList(bytes) ==
    IF Len(bytes) < 5 THEN << >>
    ELSE LET n == Min((bytes[4] % 16) * 256 + bytes[5], Len(bytes) - 5)
         IN  << [service_id |-> bytes[1] * 256 + bytes[2],
                 bytes      |-> SubSeq(bytes, 6, 5 + n)] >>
                 \o EntryList(SubSeq(bytes, 6 + n, Len(bytes)))

\* The entries of all the sections of a binary table, in order.
RECURSIVE EmittedEntries(_)
EmittedEntries(sections) ==
    IF sections = << >> THEN << >>
    ELSE EntryList(Entries(Head(sections).payload)) \o EmittedEntries(Tail(sections))

\* The positions of the entries of service j.
HeadersOf(entries, j) == { k \in 1..Len(entries) : entries[k].service_id = j }

\* The service fits in a section that holds only the 3 constant bytes.
FitsEmptySection(serv) ==
    5 + binarySize(serv.descs) <= MAX_PSI_LONG_SECTION_PAYLOAD_SIZE - 3

(***************************************************************************)
(* C16. No split unless unavoidable: for a valid table, a service with      *)
(* 5 + binarySize at most the payload size minus 3 is written in exactly    *)
(* one section, its header once and all its descriptors after it; so a      *)
(* service whose header is found more than once is larger than an empty     *)
(* section.                                                                *)
(***************************************************************************)
C16_NoNeedlessSplit ==
    (Emitted /\ sdt._is_valid) =>
       LET entries == EmittedEntries(table.sections)
       IN  \A j \in DOMAIN sdt.services :
              /\ FitsEmptySection(sdt.services[j]) =>
                    /\ Cardinality(HeadersOf(entries, j)) = 1
                    /\ \A k \in HeadersOf(entries, j) :
                          entries[k].bytes = Flatten(sdt.services[j].descs)
              /\ Cardinality(HeadersOf(entries, j)) > 1
                    => ~FitsEmptySection(sdt.services[j])

\* A service with descriptors that fits in an empty section but not in what the
\* service before it left of the first one: it is whole in the second section.
C16_Witness ==
    /\ Emitted
    /\ sdt._is_valid
    /\ Len(table.sections) = 2
    /\ Len(table.sections[1].payload) <= MAX_PSI_LONG_SECTION_PAYLOAD_SIZE - 5
    /\ \E j \in DOMAIN sdt.services :
          /\ FitsEmptySection(sdt.services[j])
          /\ Len(sdt.services[j].descs) >= 1
          /\ EntryList(Entries(table.sections[2].payload))
                = << [service_id |-> j, bytes |-> Flatten(sdt.services[j].descs)] >>

\* Every descriptor of the table is of at most the payload size minus 8 bytes.
DescriptorsFit(t) ==
    \A j \in DOMAIN t.services :
       \A i \in 1..Len(t.services[j].descs) :
          Len(t.services[j].descs[i]) <= MAX_PSI_LONG_SECTION_PAYLOAD_SIZE - 8

\* A pass of the while loop writes its descriptors into a section that holds
\* nothing but the constant bytes and the header of this pass.
PassAfterFlush ==
    /\ pc = "ser_descs"
    /\ ser.data = 3 + 3
    /\ ser.start_index < count(sdt.services[ser.it].descs)

(***************************************************************************)
(* C17. Encode terminates: for a valid table whose descriptors are each of  *)
(* at most the payload size minus 8 bytes, serialize returns; each pass of  *)
(* the while loop that writes into a fresh section writes at least one      *)
(* more descriptor, so start_index increases until it is the count.         *)
(***************************************************************************)
C17_Terminates ==
    /\ [][(PassAfterFlush /\ sdt._is_valid /\ DescriptorsFit(sdt))
             => ser'.start_index > ser.start_index]_vars
    /\ (pc = "serialize" /\ sdt._is_valid /\ DescriptorsFit(sdt)) ~> (pc = "ser_done")

\* serialize has returned after it split a list of two descriptors of the
\* largest size, one in each section.
C17_Witness ==
    /\ pc = "ser_done"
    /\ sdt._is_valid
    /\ DescriptorsFit(sdt)
    /\ \E j \in DOMAIN sdt.services :
          /\ Len(sdt.services[j].descs) = 2
          /\ \A i \in 1..2 : Len(sdt.services[j].descs[i])
                                = MAX_PSI_LONG_SECTION_PAYLOAD_SIZE - 8
    /\ Len(table.sections) >= 3
    /\ Len(table.sections[2].payload) = MAX_PSI_LONG_SECTION_PAYLOAD_SIZE

\* The last section of the binary table.
LastSection == table.sections[Len(table.sections)]

(***************************************************************************)
(* C18. Last section wins: when deserialize has succeeded on the sections   *)
(* s1..sn, version, is_current and ts_id are those of sn and onetw_id is    *)
(* the first two bytes of the payload of sn; sections that pass the checks  *)
(* on table id and payload size give a valid table even when they disagree  *)
(* on these values.                                                        *)
(***************************************************************************)
C18_LastSectionWins ==
    /\ (pc = "des_done" /\ obj._is_valid) =>
          /\ Len(table.sections) >= 1
          /\ obj.version = LastSection.version
          /\ obj.is_current = LastSection.is_current
          /\ obj.ts_id = LastSection.tid_ext
          /\ Len(LastSection.payload) >= 3
          /\ obj.onetw_id = LastSection.payload[1] * 256 + LastSection.payload[2]
    /\ (pc = "des_done" /\ caller = "decode" /\ AcceptedInput) => obj._is_valid

\* Two sections that disagree on all four values; the table is valid and has
\* those of the second one, and services from both.
C18_Witness ==
    /\ pc = "des_done"
    /\ caller = "decode"
    /\ obj._is_valid
    /\ Len(table.sections) = 2
    /\ table.sections[1].version # table.sections[2].version
    /\ table.sections[1].is_current # table.sections[2].is_current
    /\ table.sections[1].tid_ext # table.sections[2].tid_ext
    /\ SubSeq(table.sections[1].payload, 1, 2) # SubSeq(table.sections[2].payload, 1, 2)
    /\ obj.version = table.sections[2].version
    /\ obj.ts_id = table.sections[2].tid_ext
    /\ obj.onetw_id = 255
    /\ Cardinality(DOMAIN obj.services) = 2

\* deserialize is between its first and its last statement, or has returned.
InDeserialize == pc \in {"des_for", "des_while", "des_done"}

\* The 5-byte header of the occurrence r met by deserialize, taken from the
\* payload of its section: it ends r.left bytes before the end.
HeaderOf(r) ==
    LET payload == table.sections[r.si + 1].payload
    IN  SubSeq(payload, Len(payload) - r.left - 4, Len(payload) - r.left)

\* The descriptors of the occurrences of service j among added, in the order met.
RECURSIVE OccurrenceDescs(_, _)
OccurrenceDescs(added, j) ==
    IF added = << >> THEN << >>
    ELSE (IF Head(added).service_id = j THEN addBytes(<< >>, Head(added).bytes)
          ELSE << >>) \o OccurrenceDescs(Tail(added), j)

\* The position in des.added of the last occurrence of service j.
LastOccurrence(j) ==
    CHOOSE k \in 1..Len(des.added) :
       /\ des.added[k].service_id = j
       /\ \A m \in (k + 1)..Len(des.added) : des.added[m].service_id # j

\* The positions in des.added of the occurrences of service j.
Occurrences(j) == { k \in 1..Len(des.added) : des.added[k].service_id = j }

(***************************************************************************)
(* C19. Merge by identifier: the map of deserialize has one entry for each  *)
(* service id met, however many times it was met, in one section or in      *)
(* several; the descriptor list of the entry is the concatenation of the    *)
(* descriptors of all its occurrences in the order met, and its four flags  *)
(* are those of the header of the last occurrence.                          *)
(***************************************************************************)
C19_MergeById ==
    InDeserialize =>
       /\ DOMAIN obj.services = { des.added[k].service_id : k \in 1..Len(des.added) }
       /\ \A j \in DOMAIN obj.services :
             LET h == HeaderOf(des.added[LastOccurrence(j)])
             IN  /\ obj.services[j].descs = OccurrenceDescs(des.added, j)
                 /\ obj.services[j].EITs_present = (h[3] % 4 >= 2)
                 /\ obj.services[j].EITpf_present = (h[3] % 2 = 1)
                 /\ obj.services[j].running_status = h[4] \div 32
                 /\ obj.services[j].CA_controlled = ((h[4] \div 16) % 2 = 1)

\* Service 0x1111 met in two sections with different flags and one descriptor
\* each time, next to a service met once.
C19_Witness ==
    /\ pc = "des_done"
    /\ caller = "decode"
    /\ obj._is_valid
    /\ Cardinality(Occurrences(4369)) = 2
    /\ \E k, m \in Occurrences(4369) : des.added[k].si < des.added[m].si
    /\ Cardinality(DOMAIN obj.services) = 2
    /\ obj.services[4369].descs = << << 72, 1, 9 >>, << 74, 0 >> >>
    /\ obj.services[4369].running_status = 1
    /\ obj.services[4369].CA_controlled
    /\ ~obj.services[4369].EITs_present

\* Service 0x1111 met twice in one section.
C19_WitnessSameSection ==
    /\ pc = "des_done"
    /\ caller = "decode"
    /\ obj._is_valid
    /\ Len(table.sections) = 1
    /\ Cardinality(Occurrences(4369)) = 2
    /\ obj.services[4369].descs = << << 72, 1, 9 >>, << 74, 0 >> >>
    /\ obj.services[4369].running_status = 1

\* What deserialize met in section i (1-based), in order.
MetIn(i) == SelectSeq(des.added, LAMBDA r : r.si = i - 1)

RECURSIVE EntriesSize(_)
EntriesSize(entries) ==
    IF entries = << >> THEN 0
    ELSE 5 + Len(Head(entries).bytes) + EntriesSize(Tail(entries))

\* The bytes of section i after its last entry.
TrailingBytes(i) ==
    LET payload == table.sections[i].payload
    IN  Len(payload) - 3 - EntriesSize(EntryList(Entries(payload)))

(***************************************************************************)
(* C20. Trailing bytes: in each section deserialize reads an entry only     *)
(* while at least 5 bytes remain, so what it met in a section it went       *)
(* through is exactly the entries of the payload, and the 1 to 4 bytes      *)
(* left after the last one give no service and do not make the table        *)
(* invalid.                                                                *)
(***************************************************************************)
C20_TrailingBytes ==
    /\ \A k \in 1..Len(des.added) : des.added[k].left >= 0
    /\ (pc = "des_done" /\ obj._is_valid) =>
          /\ \A i \in 1..Len(table.sections) :
                LET entries == EntryList(Entries(table.sections[i].payload))
                IN  /\ Len(MetIn(i)) = Len(entries)
                    /\ \A k \in 1..Len(entries) :
                          /\ MetIn(i)[k].service_id = entries[k].service_id
                          /\ MetIn(i)[k].bytes = entries[k].bytes
                    /\ TrailingBytes(i) \in 0..4
          /\ DOMAIN obj.services =
                UNION { { EntryList(Entries(table.sections[i].payload))[k].service_id :
                             k \in 1..Len(EntryList(Entries(table.sections[i].payload))) } :
                        i \in 1..Len(table.sections) }
    /\ (/\ pc = "des_done"
        /\ caller = "decode"
        /\ AcceptedInput
        /\ \E i \in 1..Len(table.sections) : TrailingBytes(i) \in 1..4)
       => obj._is_valid

\* Two sections read, the first one with one entry and 4 bytes after it.
C20_Witness ==
    /\ pc = "des_done"
    /\ caller = "decode"
    /\ obj._is_valid
    /\ Len(table.sections) = 2
    /\ TrailingBytes(1) = 4
    /\ Len(MetIn(1)) = 1
    /\ Len(MetIn(2)) >= 1
    /\ 5 \in DOMAIN obj.services

\* The ids of the services whose name, as the table was built, is the name
\* findService looks for.
NamedAs == { j \in DOMAIN probe.names : probe.names[j] = probe.name }

(***************************************************************************)
(* C11. Name search: findService(name, exact_match = true) returns true and *)
(* the smallest service id whose service name, taken from its first         *)
(* service descriptor, is byte-equal to name; when no service has that      *)
(* name it returns false and sets the service id to 0.                      *)
(***************************************************************************)
C11_NameSearch ==
    (pc = "find_done" /\ probe.exact_match) =>
       IF NamedAs = {}
       THEN ~probe.result /\ probe.service_id = 0
       ELSE /\ probe.result
            /\ probe.service_id \in NamedAs
            /\ \A j \in NamedAs : probe.service_id <= j

\* "Sports" found in the second of three services, the third one has it too.
C11_Witness ==
    /\ pc = "find_done"
    /\ probe.exact_match
    /\ probe.name = Sports
    /\ probe.result
    /\ probe.service_id = 514
    /\ NamedAs = {514, 771}
    /\ providerName(sdt.services[514]) = ACME

\* "Sports" not found in a table of services with other names.
C11_WitnessNotFound ==
    /\ pc = "find_done"
    /\ probe.exact_match
    /\ probe.name = Sports
    /\ DOMAIN sdt.services # {}
    /\ ~probe.result
    /\ probe.service_id = 0

(***************************************************************************)
(* C12. setName postcondition: for a service that holds no service          *)
(* descriptor, a well-formed one, or one with a payload of less than 2      *)
(* bytes, and a name of at most 252 bytes, serviceName() returns the name   *)
(* after setName(name, type); when a well-formed service descriptor was     *)
(* there, serviceType() and providerName() return what they did before.     *)
(***************************************************************************)
C12_SetName ==
    (/\ pc = "accessors_done"
     /\ probe.kind \in {"none", "well_formed", "short"}
     /\ Len(probe.name) <= 252)
    => /\ probe.after.serviceName = probe.name
       /\ probe.kind = "well_formed" =>
             /\ probe.after.serviceType = probe.before.serviceType
             /\ probe.after.providerName = probe.before.providerName

\* The service ids of the entry headers of the emitted sections, in the order
\* of the sections and of the entries in each.
EmittedIds ==
    [k \in 1..Len(EmittedEntries(table.sections)) |->
        EmittedEntries(table.sections)[k].service_id]

(***************************************************************************)
(* C21. Emission order: through the sections serialize emitted, in order,   *)
(* and the entries of each, in order, the service ids of the entry headers  *)
(* never decrease; an id comes twice only in the headers of one service     *)
(* that is split (it does not fit in an empty section), and the ids are     *)
(* those of the table: the services are emitted in ascending id order.      *)
(***************************************************************************)
C21_EmissionOrder ==
    (Emitted /\ sdt._is_valid) =>
       /\ \A k \in 1..(Len(EmittedIds) - 1) :
             /\ EmittedIds[k] <= EmittedIds[k + 1]
             /\ EmittedIds[k] = EmittedIds[k + 1] =>
                   /\ EmittedIds[k] \in DOMAIN sdt.services
                   /\ ~FitsEmptySection(sdt.services[EmittedIds[k]])
       /\ { EmittedIds[k] : k \in 1..Len(EmittedIds) } = DOMAIN sdt.services

\* Two services emitted, the second one split: its id comes twice, after the
\* id of the first one.
C21_Witness ==
    /\ Emitted
    /\ sdt._is_valid
    /\ Cardinality(DOMAIN sdt.services) = 2
    /\ Len(EmittedIds) = 3
    /\ EmittedIds[1] < EmittedIds[2]
    /\ EmittedIds[2] = EmittedIds[3]

\* The 3 bytes every payload of the table starts with.
ConstantPart(t) == << t.onetw_id \div 256, t.onetw_id % 256, 255 >>

\* A step of serialize that adds a section to the binary table.
Flush ==
    /\ InSerialize
    /\ Len(table'.sections) = Len(table.sections) + 1

(***************************************************************************)
(* C22. Constant fields replicated: every section one serialize call emits  *)
(* carries the table id, ts_id, version and current flag of the table, is   *)
(* marked private, and has a payload that starts with the same 3 bytes,     *)
(* onetw_id big-endian then 0xFF; a flush puts the cursor back just after   *)
(* these 3 bytes and leaves them as they are in the working buffer.         *)
(***************************************************************************)
C22_ConstantFields ==
    /\ []((Emitting /\ sdt._is_valid) =>
            \A i \in 1..Len(table.sections) :
               /\ table.sections[i].table_id = sdt._table_id
               /\ table.sections[i].tid_ext = sdt.ts_id
               /\ table.sections[i].version = sdt.version
               /\ table.sections[i].is_current = sdt.is_current
               /\ table.sections[i].is_private_section
               /\ Len(table.sections[i].payload) >= 3
               /\ SubSeq(table.sections[i].payload, 1, 3) = ConstantPart(sdt))
    /\ [](InSerialize => SubSeq(ser.payload, 1, 3) = ConstantPart(sdt))
    /\ [][Flush => /\ ser'.data = 3
                   /\ ser'.remain = MAX_PSI_LONG_SECTION_PAYLOAD_SIZE - 3
                   /\ SubSeq(ser'.payload, 1, 3) = SubSeq(ser.payload, 1, 3)]_vars

\* Three sections emitted for a table of the "other" kind, version 31, not
\* current.
C22_Witness ==
    /\ Emitted
    /\ sdt._is_valid
    /\ sdt._table_id = TID_SDT_OTH
    /\ ~sdt.is_current
    /\ Len(table.sections) >= 3
    /\ \A i \in 1..3 :
          /\ table.sections[i].table_id = TID_SDT_OTH
          /\ table.sections[i].version = 31
          /\ SubSeq(table.sections[i].payload, 1, 3) = << 0, 255, 255 >>

\* setProvider has run and the accessors were called.
ProviderSet == caller = "provider" /\ pc = "accessors_done"

\* What the claim says of a service without service descriptor: a new one is
\* added, with the given type, the given provider and an empty name.
NewDescriptorAdded ==
    /\ probe.serv.descs =
          Append(probe.descs_before,
                 ServiceDescriptor(probe.service_type, probe.provider, << >>))
    /\ probe.after.serviceType = probe.service_type
    /\ probe.after.providerName = probe.provider
    /\ probe.after.serviceName = << >>

\* What it says of a service with a well-formed one.
OtherFieldsKept ==
    /\ probe.after.providerName = probe.provider
    /\ probe.after.serviceType = probe.before.serviceType
    /\ probe.after.serviceName = probe.before.serviceName

(***************************************************************************)
(* C23. setProvider preserves the other sub-fields.  As claimed: for a      *)
(* service whose first service descriptor is well-formed and any provider   *)
(* of at most 252 bytes, after setProvider(provider, type) providerName()   *)
(* returns provider, serviceType() and serviceName() return what they did   *)
(* before, whatever the type argument; a service without service            *)
(* descriptor gets a new one with the given type and provider and an empty  *)
(* name.                                                                   *)
(***************************************************************************)
C23_SetProviderAnyLength ==
    (ProviderSet /\ Len(probe.provider) <= 252) =>
       /\ probe.kind = "well_formed" => OtherFieldsKept
       /\ probe.kind = "none" => NewDescriptorAdded

(***************************************************************************)
(* C23, amended: the same, for a well-formed service descriptor, when the   *)
(* new payload fits in a descriptor: 3 + the length of provider + the       *)
(* length of the service name is at most 255.                               *)
(***************************************************************************)
C23_SetProvider ==
    (ProviderSet /\ Len(probe.provider) <= 252) =>
       /\ (/\ probe.kind = "well_formed"
           /\ 3 + Len(probe.provider) + Len(probe.before.serviceName) <= 255)
          => OtherFieldsKept
       /\ probe.kind = "none" => NewDescriptorAdded

\* The provider "ACME" of a service named "Sports", of type 1, replaced by
\* "Sp" in a call with type 25.
C23_Witness ==
    /\ ProviderSet
    /\ probe.kind = "well_formed"
    /\ probe.before = [serviceType |-> 1, providerName |-> ACME, serviceName |-> Sports]
    /\ probe.provider = Sp
    /\ probe.service_type = 25
    /\ probe.after = [serviceType |-> 1, providerName |-> Sp, serviceName |-> Sports]
    /\ probe.serv.descs = << ServiceDescriptor(1, Sp, Sports) >>

(***************************************************************************)
(* C24. Encoding an invalid table: serialize on a table whose validity      *)
(* flag is false clears the binary table and returns at once, so the        *)
(* binary table holds no section after it, whatever it held before and      *)
(* whatever services the table holds; a valid table gives at least one      *)
(* section.                                                                *)
(***************************************************************************)
C24_InvalidTable ==
    /\ []((Emitting /\ ~sdt._is_valid) =>
            /\ table = EmptyTable
            /\ sectionCount(table) = 0
            /\ ~InSerialize)
    /\ []((Emitted /\ sdt._is_valid) => sectionCount(table) >= 1)
    /\ [][(pc = "serialize" /\ ~sdt._is_valid) =>
             /\ table' = EmptyTable
             /\ pc' = "ser_done"]_vars

\* serialize has returned for an invalid table that holds a service with
\* descriptors; the binary table is empty and not valid.
C24_Witness ==
    /\ caller = "roundtrip"
    /\ pc = "ser_done"
    /\ ~sdt._is_valid
    /\ \E j \in DOMAIN sdt.services : Len(sdt.services[j].descs) >= 1
    /\ table.sections = << >>
    /\ ~table.valid

\* The binary table is valid and its table id is not one of an SDT.
NotAnSDT == table.valid /\ ~(tableId(table) \in {TID_SDT_ACT, TID_SDT_OTH})

(***************************************************************************)
(* C25. Table id filter: deserialize accepts only the table ids of an SDT,  *)
(* actual and other.  For a valid binary table with another table id it     *)
(* returns with the SDT invalid, the service map empty and ts_id and        *)
(* onetw_id 0, and it parses no section: it never enters the loop on the    *)
(* sections.  A table it marks valid has one of the two table ids.          *)
(***************************************************************************)
C25_TableIdFilter ==
    /\ (caller = "decode" /\ NotAnSDT) =>
          /\ pc \in {"deserialize", "des_done"}
          /\ des.added = << >>
          /\ des.si = 0
          /\ pc = "des_done" =>
                /\ ~obj._is_valid
                /\ obj.services = << >>
                /\ obj.ts_id = 0
                /\ obj.onetw_id = 0
    /\ (pc = "des_done" /\ obj._is_valid) =>
          /\ obj._table_id \in {TID_SDT_ACT, TID_SDT_OTH}
          /\ tableId(table) = obj._table_id

\* deserialize has returned for a valid binary table of table id 0 whose
\* section holds service descriptions.
C25_Witness ==
    /\ caller = "decode"
    /\ pc = "des_done"
    /\ NotAnSDT
    /\ Len(table.sections[1].payload) >= 3 + 5
    /\ ~obj._is_valid
    /\ obj.services = << >>
    /\ obj._table_id = 0

=============================================================================
